---- MODULE Spec2Model ----
(***************************************************************************)
(* Shifta shift scheduling: the optimization engine (ai_scheduler.py), the *)
(* stored records it reads and writes (shifta_models.py) and the Celery    *)
(* task that wraps an optimization (tasks.py).                             *)
(*                                                                         *)
(* Dates are day numbers 1..NumDays.  An optional foreign key is a set:    *)
(* {} for NULL, {id} for a reference.                                      *)
(***************************************************************************)
EXTENDS Integers, Sequences, FiniteSets, TLC

\* ------------------------------------------------------------------ bounds
NumStaff == 2
NumDays == 4
MaxCalls == 2
NumRuns == 2

Staff == 1..NumStaff
Days == 1..NumDays
JobTypeIds == {"nurse", "doctor"}
WorkStyleIds == {"fulltime"}
PeriodIds == {"p1"}
MissingPeriodId == "p9"

\* ------------------------------------------------- program constants
\* ShiftRequest.PRIORITY_CHOICES
PriorityOff == 1
PriorityAvailable == 2
PriorityWant == 3
\* self.requests.get(request_key, 2)
DefaultPriority == 2
\* objective weights of _set_objective_function
WeightWant == 10
WeightAvailable == 1
WeightOff == 0 - 100
\* HolidayType.objects.filter(name=...) of save_results (the name, romanised)
DefaultHolidayName == "shukyu"
\* @shared_task(bind=True, max_retries=3)
max_retries == 3

VARIABLES
    periods,            \* SchedulePeriod rows: id -> [start_date, end_date]
    staff,              \* StaffProfile rows: id -> [is_active, job_type, work_style]
    work_styles,        \* WorkStyle rows: id -> [min_shifts_per_month, ...]
    shift_requests,     \* ShiftRequest rows
    daily_requirements, \* DailyRequirement rows
    holiday_types,      \* names of the HolidayType rows
    assignments,        \* committed ShiftAssignment rows
    logs,               \* ScheduleLog rows, oldest first
    optimization_status,\* period id -> optimization_status written by period.save()
    pc,                 \* position of the running job
    call,               \* arguments and bookkeeping of the running job
    optimizer,          \* the ShiftOptimizer instance of the running job
    tx,                 \* open transaction of save_results: {} or {working copy}
    result,             \* {} or {what the last job returned or raised}
    budget              \* jobs that may still be started

inputs == <<periods, staff, work_styles, shift_requests, daily_requirements,
            holiday_types>>
vars == <<periods, staff, work_styles, shift_requests, daily_requirements,
          holiday_types, assignments, logs, optimization_status, pc, call,
          optimizer, tx, result, budget>>

\* ------------------------------------------------------------ helpers
RECURSIVE SumOver(_, _)
\* pulp.lpSum evaluated at a point: the sum of f[k] over k in S
SumOver(S, f) ==
    IF S = {} THEN 0
    ELSE LET k == CHOOSE e \in S : TRUE
         IN f[k] + SumOver(S \ {k}, f)

\* dict.get(key, default)
DictGet(d, key, default) == IF key \in DOMAIN d THEN d[key] ELSE default

\* date.strftime('%Y-%m-%d'): the text of a date, a value of another type than the date
DateStr(date) == <<"ymd", date>>

\* mutant of InDateRange: the end of the range is not compared
InDateRangeNoUpperBound(date, start, end) == start <= date

\* date__range=(start, end): BETWEEN start AND end, both ends included
InDateRange(date, start, end) == start <= date /\ date <= end

\* ---------------------------------------------------- ShiftOptimizer.__init__
\* StaffProfile.objects.filter(is_active=True)
ActiveStaff == {s \in Staff : staff[s].is_active}

RECURSIVE DateRangeFromExclusive(_, _)
\* mutant of DateRangeFrom: the loop stops before the end date
DateRangeFromExclusive(current_date, end_date) ==
    IF current_date < end_date
    THEN <<current_date>> \o DateRangeFromExclusive(current_date + 1, end_date)
    ELSE <<>>

RECURSIVE DateRangeFrom(_, _)
\* the while loop of _generate_date_range
DateRangeFrom(current_date, end_date) ==
    IF current_date <= end_date
    THEN <<current_date>> \o DateRangeFrom(current_date + 1, end_date)
    ELSE <<>>

GenerateDateRange(period) == DateRangeFrom(period.start_date, period.end_date)

\* _load_shift_requests: (staff id, date) -> priority, of the period's requests
LoadShiftRequests(period_id) ==
    LET rows == {r \in shift_requests : r.period = period_id}
    IN [key \in {<<r.staff, r.date>> : r \in rows} |->
            (CHOOSE r \in rows : r.staff = key[1] /\ r.date = key[2]).priority]

\* _load_daily_requirements: (date, job type id) -> min_count
LoadDailyRequirements(period_id) ==
    LET rows == {r \in daily_requirements : r.period = period_id}
    IN [key \in {<<r.date, r.job_type>> : r \in rows} |->
            [min_count |-> (CHOOSE r \in rows :
                                r.date = key[1] /\ r.job_type = key[2]).min_staff_count]]

\* the instance __init__ leaves behind; problem is None
NewOptimizer(period_id) ==
    [period_id    |-> period_id,
     start_date   |-> periods[period_id].start_date,
     end_date     |-> periods[period_id].end_date,
     staff_list   |-> ActiveStaff,
     date_range   |-> GenerateDateRange(periods[period_id]),
     requests     |-> LoadShiftRequests(period_id),
     requirements |-> LoadDailyRequirements(period_id),
     is_working   |-> {},
     problem      |-> {},
     status       |-> "Not Solved",
     values       |-> <<>>]

DatesOf(opt) == {opt.date_range[i] : i \in 1..Len(opt.date_range)}

\* --------------------------------------------- create_optimization_problem
\* _create_decision_variables: the keys of self.is_working
CreateDecisionVariables(opt) ==
    {<<s, DateStr(date)>> : s \in opt.staff_list, date \in DatesOf(opt)}

\* mutant of PriorityWeight: a strong wish to work counts like plain availability
PriorityWeightWantAsAvailable(priority) ==
    IF priority = PriorityWant THEN WeightAvailable
    ELSE IF priority = PriorityAvailable THEN WeightAvailable
    ELSE IF priority = PriorityOff THEN WeightOff
    ELSE 0

\* the score of one priority in _set_objective_function
PriorityWeight(priority) ==
    IF priority = PriorityWant THEN WeightWant
    ELSE IF priority = PriorityAvailable THEN WeightAvailable
    ELSE IF priority = PriorityOff THEN WeightOff
    ELSE 0

\* _set_objective_function: the coefficient of every variable
SetObjectiveFunction(opt) ==
    [key \in CreateDecisionVariables(opt) |->
        PriorityWeight(DictGet(opt.requests, <<key[1], key[2][2]>>, DefaultPriority))]

\* _get_all_job_type_ids: the job types of the loaded (active) staff
GetAllJobTypeIds(opt) == UNION {staff[s].job_type : s \in opt.staff_list}

\* staff_vars of _add_daily_minimum_constraints
StaffVars(opt, date, job_type_id) ==
    {<<s, DateStr(date)>> : s \in {t \in opt.staff_list : job_type_id \in staff[t].job_type}}

\* mutant of DailyMinimumConstraints: a constraint for every recorded requirement
\* of a day of the period, whether or not a loaded worker has the job type
DailyMinimumConstraintsUnguarded(opt) ==
    {[name  |-> <<"daily_min", key[1], key[2]>>,
      vars  |-> StaffVars(opt, key[1], key[2]),
      sense |-> ">=",
      rhs   |-> opt.requirements[key].min_count] :
        key \in {k \in DOMAIN opt.requirements : k[1] \in DatesOf(opt)}}

\* _add_daily_minimum_constraints
DailyMinimumConstraints(opt) ==
    {[name  |-> <<"daily_min", key[1], key[2]>>,
      vars  |-> StaffVars(opt, key[1], key[2]),
      sense |-> ">=",
      rhs   |-> opt.requirements[key].min_count] :
        key \in {k \in DatesOf(opt) \X GetAllJobTypeIds(opt) :
                    k \in DOMAIN opt.requirements /\ StaffVars(opt, k[1], k[2]) # {}}}

\* mutant of MonthlyWorkdayConstraints: the upper bound is forgotten
MonthlyWorkdayConstraintsMinOnly(opt) ==
    {[name  |-> <<"min_monthly", s>>,
      vars  |-> {<<s, DateStr(date)>> : date \in DatesOf(opt)},
      sense |-> ">=",
      rhs   |-> work_styles[CHOOSE w \in staff[s].work_style : TRUE].min_shifts_per_month] :
        s \in {t \in opt.staff_list : staff[t].work_style # {}}}

\* _add_monthly_workday_constraints
MonthlyWorkdayConstraints(opt) ==
    LET styled == {s \in opt.staff_list : staff[s].work_style # {}}
        ws(s) == work_styles[CHOOSE w \in staff[s].work_style : TRUE]
        monthly_vars(s) == {<<s, DateStr(date)>> : date \in DatesOf(opt)}
    IN {[name  |-> <<"min_monthly", s>>,
         vars  |-> monthly_vars(s),
         sense |-> ">=",
         rhs   |-> ws(s).min_shifts_per_month] :
            s \in {t \in styled : ws(t).min_shifts_per_month > 0}}
       \cup
       {[name  |-> <<"max_monthly", s>>,
         vars  |-> monthly_vars(s),
         sense |-> "<=",
         rhs   |-> ws(s).max_shifts_per_month] : s \in styled}

\* mutant of WindowStarts: the window that ends on the last day is left out
WindowStartsShort(len, max_consecutive) == 0..(len - max_consecutive - 2)

\* range(len(self.date_range) - max_consecutive): the window starts, counted from 0
WindowStarts(len, max_consecutive) == 0..(len - max_consecutive - 1)

\* _add_consecutive_workday_constraints
ConsecutiveWorkdayConstraints(opt) ==
    LET ws(s) == work_styles[CHOOSE w \in staff[s].work_style : TRUE]
        limited == {s \in opt.staff_list :
                        staff[s].work_style # {} /\ ws(s).allow_consecutive_days > 0}
    IN UNION {
         {[name  |-> <<"consecutive", s, i>>,
           vars  |-> {<<s, DateStr(opt.date_range[i + j + 1])>> :
                          j \in 0..ws(s).allow_consecutive_days},
           sense |-> "<=",
           rhs   |-> ws(s).allow_consecutive_days] :
              i \in WindowStarts(Len(opt.date_range), ws(s).allow_consecutive_days)} :
         s \in limited}

\* mutant of HolidayRequestConstraints: the requested day off is bounded by one
\* instead of being fixed to zero
HolidayRequestsAsUpperBound(opt) ==
    {[name  |-> <<"holiday_request", key[1], DateStr(key[2])>>,
      vars  |-> {<<key[1], DateStr(key[2])>>},
      sense |-> "<=",
      rhs   |-> 1] :
        key \in {k \in opt.staff_list \X DatesOf(opt) :
                    k \in DOMAIN opt.requests /\ opt.requests[k] = PriorityOff}}

\* mutant of HolidayRequestConstraints: only the objective penalty is left
NoHolidayRequestConstraints(opt) == {}

\* _add_holiday_request_constraints
HolidayRequestConstraints(opt) ==
    {[name  |-> <<"holiday_request", key[1], DateStr(key[2])>>,
      vars  |-> {<<key[1], DateStr(key[2])>>},
      sense |-> "==",
      rhs   |-> 0] :
        key \in {k \in opt.staff_list \X DatesOf(opt) :
                    k \in DOMAIN opt.requests /\ opt.requests[k] = PriorityOff}}

\* _add_constraints
AddConstraints(opt) ==
    DailyMinimumConstraints(opt) \cup MonthlyWorkdayConstraints(opt)
        \cup ConsecutiveWorkdayConstraints(opt) \cup HolidayRequestConstraints(opt)

\* create_optimization_problem: the LpProblem the method leaves in self.problem
CreateOptimizationProblem(opt) ==
    [variables   |-> CreateDecisionVariables(opt),
     objective   |-> SetObjectiveFunction(opt),
     constraints |-> AddConstraints(opt)]

\* ------------------------------------------------------------------ solve
\* one LpConstraint evaluated at the 0/1 point x
ConstraintHolds(c, x) ==
    LET lhs == SumOver(c.vars, x)
    IN CASE c.sense = ">=" -> lhs >= c.rhs
         [] c.sense = "<=" -> lhs <= c.rhs
         [] c.sense = "==" -> lhs = c.rhs

\* the value of the objective (TotalPriorityScore) at x
ObjectiveValue(problem, x) ==
    SumOver(problem.variables, [k \in problem.variables |-> problem.objective[k] * x[k]])

\* the 0/1 points that satisfy every constraint of the problem
FeasibleSet(problem) ==
    {x \in [problem.variables -> {0, 1}] :
        \A c \in problem.constraints : ConstraintHolds(c, x)}

\* mutant of OptimalSet: the solver may also stop early, at the first feasible
\* point it meets
OptimalOrFirstFeasible(problem) ==
    LET scored == {<<x, ObjectiveValue(problem, x)>> : x \in FeasibleSet(problem)}
        scores == {p[2] : p \in scored}
    IN {p[1] : p \in {q \in scored : \A v \in scores : v <= q[2]}}
       \cup {(CHOOSE q \in scored : TRUE)[1]}

\* what the solver may hand back for an LpMaximize problem: the feasible points
\* of greatest objective value
OptimalSet(problem) ==
    LET scored == {<<x, ObjectiveValue(problem, x)>> : x \in FeasibleSet(problem)}
        scores == {p[2] : p \in scored}
    IN {p[1] : p \in {q \in scored : \A v \in scores : v <= q[2]}}

\* pulp.LpStatus[self.problem.status] of a run of the solver that ends normally
SolverStatus(problem) == IF FeasibleSet(problem) = {} THEN "Infeasible" ELSE "Optimal"

\* what can go wrong inside self.problem.solve: nothing, the solver ends without a
\* verdict (LpStatus "Not Solved" / "Undefined"), or the call raises
SolverFaults == {"none", "Not Solved", "Undefined", "raise"}

\* mutant of SolvedStatuses: a run of the solver that ended without a verdict is
\* taken for a solution
SolvedStatusesLax == {"Optimal", "Feasible", "Not Solved"}

\* the statuses solve() and save_results() accept
SolvedStatuses == {"Optimal", "Feasible"}

\* --------------------------------------------------- ShiftSchedulerService
\* _log_execution: the ScheduleLog row is saved unless save() raises, which the
\* method swallows; ScheduleLog.period is a non-null foreign key, so a row for a
\* period that does not exist is refused by the database
LogExecution(period_id, description, success) ==
    IF period_id \in DOMAIN periods
    THEN Append(logs, [period_id   |-> period_id,
                       action      |-> "ai_create",
                       description |-> description,
                       success     |-> success])
    ELSE logs

\* mutant of ReturnNotSolved: the failure is returned but not logged
ReturnNotSolvedUnlogged(message) ==
    /\ logs' = logs
    /\ result' = {[success |-> FALSE, message |-> message, assignments_count |-> 0]}
    /\ pc' = "done"

\* lines 371-382 of generate_schedule: solve() returned success = False
ReturnNotSolved(message) ==
    /\ logs' = LogExecution(call.period_id, message, FALSE)
    /\ result' = {[success |-> FALSE, message |-> message, assignments_count |-> 0]}
    /\ pc' = "done"

\* mutant of ExceptHandler: the exception is logged and raised again
ExceptHandlerReraise(exc) ==
    /\ logs' = LogExecution(call.period_id, <<"error", exc>>, FALSE)
    /\ result' = {[success |-> FALSE, raised |-> exc]}
    /\ pc' = "done"

\* the except clause of generate_schedule
ExceptHandler(exc) ==
    /\ logs' = LogExecution(call.period_id, <<"error", exc>>, FALSE)
    /\ result' = {[success |-> FALSE, message |-> <<"schedule_error", exc>>,
                   assignments_count |-> 0]}
    /\ pc' = "done"

\* what the job that has just ended leaves for the next one to be compared with:
\* for a generate_schedule call its period, what the solver did, the value of the
\* objective at the solution and the returned success
FinishedRun ==
    IF pc = "done" /\ call.kind = "service"
    THEN {[period_id |-> call.period_id, solver |-> call.solver,
           score |-> call.score, success |-> \E r \in result : r.success]}
    ELSE {}

\* a caller invokes ShiftSchedulerService.generate_schedule(period_id)
GenerateSchedule(period_id) ==
    /\ pc \in {"idle", "done"}
    /\ budget > 0
    /\ budget' = budget - 1
    /\ pc' = "init"
    /\ call' = [kind |-> "service", period_id |-> period_id, retries |-> 0,
                before |-> assignments, logs_before |-> logs, solver |-> "not called",
                assignment_count |-> 0, score |-> 0, executions |-> 0,
                countdowns |-> <<>>, previous |-> FinishedRun]
    /\ optimizer' = {}
    /\ result' = {}
    /\ UNCHANGED <<inputs, assignments, logs, optimization_status, tx>>

\* step 1: optimizer = ShiftOptimizer(period_id); SchedulePeriod.objects.get raises
\* DoesNotExist for an unknown id
OptimizerInit ==
    /\ pc = "init"
    /\ IF call.period_id \in DOMAIN periods
       THEN /\ optimizer' = {NewOptimizer(call.period_id)}
            /\ pc' = "create"
            /\ UNCHANGED <<logs, result>>
       ELSE /\ ExceptHandler("DoesNotExist")
            /\ UNCHANGED optimizer
    /\ UNCHANGED <<inputs, assignments, optimization_status, call, tx, budget>>

\* step 2: optimizer.create_optimization_problem()
CreateProblem ==
    /\ pc = "create"
    /\ \E opt \in optimizer :
          optimizer' = {[opt EXCEPT !.is_working = CreateDecisionVariables(opt),
                                    !.problem = {CreateOptimizationProblem(opt)}]}
    /\ pc' = "solve"
    /\ UNCHANGED <<inputs, assignments, logs, optimization_status, call, tx, result,
                   budget>>

\* optimizer.solve(): everything it can return, with what it leaves in the
\* optimizer. solver tells what was done with the solver ("not called", "raised", or
\* the status it handed back) and score is the value of the objective at the
\* solution
SolveOutcomes(opt) ==
    IF opt.problem = {}
    THEN {[success |-> FALSE, message |-> <<"not_defined">>, solver |-> "not called",
           status |-> opt.status, values |-> opt.values, score |-> 0]}
    ELSE LET problem == CHOOSE p \in opt.problem : TRUE
             returned(status) ==
                 IF status \in SolvedStatuses
                 THEN {[success |-> TRUE, message |-> <<"solved", status>>,
                        solver |-> status, status |-> status, values |-> x,
                        score |-> ObjectiveValue(problem, x)] :
                            x \in OptimalSet(problem)}
                 ELSE {[success |-> FALSE, message |-> <<"no_solution", status>>,
                        solver |-> status, status |-> status, values |-> opt.values,
                        score |-> 0]}
         IN UNION {IF fault = "raise"
                   THEN {[success |-> FALSE, message |-> <<"calc_error", "solver">>,
                          solver |-> "raised", status |-> opt.status,
                          values |-> opt.values, score |-> 0]}
                   ELSE returned(IF fault = "none" THEN SolverStatus(problem) ELSE fault) :
                      fault \in SolverFaults}

\* step 3: success, message = optimizer.solve(), and the branch on success;
\* call.solver keeps what the solver did (it raised, or the status it returned)
\* and call.score the value of the objective at the solution it handed back
Solve ==
    /\ pc = "solve"
    /\ \E opt \in optimizer : \E o \in SolveOutcomes(opt) :
          /\ optimizer' = {[opt EXCEPT !.status = o.status, !.values = o.values]}
          /\ call' = [call EXCEPT !.solver = o.solver, !.score = o.score]
          /\ IF o.success
             THEN /\ pc' = "save"
                  /\ UNCHANGED <<logs, result>>
             ELSE ReturnNotSolved(o.message)
    /\ UNCHANGED <<inputs, assignments, optimization_status, tx, budget>>

\* a caller uses a ShiftOptimizer of its own: it constructs the optimizer, calls
\* create_optimization_problem() or leaves it out, and calls solve()
DirectSolve(period_id) ==
    /\ pc \in {"idle", "done"}
    /\ budget > 0
    /\ budget' = budget - 1
    /\ pc' = "done"
    /\ IF period_id \notin DOMAIN periods
       THEN /\ optimizer' = {}
            /\ result' = {[success |-> FALSE, raised |-> "DoesNotExist"]}
            /\ call' = [kind |-> "direct", period_id |-> period_id, retries |-> 0,
                        before |-> assignments, logs_before |-> logs,
                        solver |-> "not called", assignment_count |-> 0, score |-> 0,
                        executions |-> 0, countdowns |-> <<>>, previous |-> {}]
       ELSE \E built \in BOOLEAN :
            LET fresh == NewOptimizer(period_id)
                opt == IF built
                       THEN [fresh EXCEPT !.is_working = CreateDecisionVariables(fresh),
                                          !.problem = {CreateOptimizationProblem(fresh)}]
                       ELSE fresh
            IN \E o \in SolveOutcomes(opt) :
                  /\ optimizer' = {[opt EXCEPT !.status = o.status, !.values = o.values]}
                  /\ result' = {[success |-> o.success, message |-> o.message]}
                  /\ call' = [kind |-> "direct", period_id |-> period_id, retries |-> 0,
                              before |-> assignments, logs_before |-> logs,
                              solver |-> o.solver, assignment_count |-> 0,
                              score |-> o.score, executions |-> 0,
                              countdowns |-> <<>>, previous |-> {}]
    /\ UNCHANGED <<inputs, assignments, logs, optimization_status, tx>>

\* ------------------------------------------------------------ save_results
\* mutant of NoValidSolution: only the missing model is checked, not the status
NoModelOnly(opt) == opt.problem = {}

\* the first line of save_results: there is no model, or its status is neither
\* Optimal nor Feasible, and ValueError is raised
NoValidSolution(opt) == opt.problem = {} \/ opt.status \notin SolvedStatuses

\* HolidayType.objects.filter(name=...).first(): the row, or None
DefaultHoliday == IF DefaultHolidayName \in holiday_types THEN {DefaultHolidayName} ELSE {}

\* the ShiftAssignment built for one (staff, date) in the loop of save_results;
\* pulp.value(var) == 1 is false for a variable the solver gave no value
NewAssignment(opt, s, date) ==
    IF DictGet(opt.values, <<s, DateStr(date)>>, 0) = 1
    THEN [staff |-> s, date |-> date, is_workday |-> TRUE, holiday_type |-> {},
          created_by_ai |-> TRUE, manually_adjusted |-> FALSE]
    ELSE [staff |-> s, date |-> date, is_workday |-> FALSE,
          holiday_type |-> DefaultHoliday,
          created_by_ai |-> TRUE, manually_adjusted |-> FALSE]

\* assignments_to_create
AssignmentsToCreate(opt) ==
    {NewAssignment(opt, s, date) : s \in opt.staff_list, date \in DatesOf(opt)}

\* mutant of RowsInRange: the delete spares what the AI did not create
RowsInRangeAiOnly(rows, start, end) ==
    {a \in rows : InDateRange(a.date, start, end) /\ a.created_by_ai}

\* mutant of RowsInRange: every row from the start date on, whatever the end date
RowsInRangeToEnd(rows, start_date, end_date) == {a \in rows : a.date >= start_date}

\* ShiftAssignment.objects.filter(date__range=(start_date, end_date))
RowsInRange(rows, start, end) == {a \in rows : InDateRange(a.date, start, end)}

\* unique_together = ('staff', 'date') of ShiftAssignment: no two rows of one pair
UniqueTogether(rows) ==
    \A a, b \in rows : (a.staff = b.staff /\ a.date = b.date) => a = b

\* the rows a statement inside the transaction sees
TxView(t) == (assignments \ t.deleted) \cup t.created

\* mutant of SaveDelete: the delete runs outside the transaction and is
\* committed at once
SaveDeleteAutocommit ==
    /\ pc = "save"
    /\ \E opt \in optimizer, db_error \in BOOLEAN :
          IF NoValidSolution(opt)
          THEN /\ ExceptHandler("ValueError")
               /\ UNCHANGED <<tx, assignments>>
          ELSE IF db_error
          THEN /\ ExceptHandler("DatabaseError")
               /\ UNCHANGED <<tx, assignments>>
          ELSE /\ assignments' = assignments \
                      RowsInRange(assignments, opt.start_date, opt.end_date)
               /\ tx' = {[deleted |-> {}, created |-> {}]}
               /\ pc' = "bulk_create"
               /\ UNCHANGED <<logs, result>>
    /\ UNCHANGED <<inputs, optimization_status, call, optimizer, budget>>

\* save_results up to the delete: the status check, transaction.atomic() entered
\* and the rows of the period's date range deleted inside it; a database error
\* leaves the with block, which rolls the transaction back
SaveDelete ==
    /\ pc = "save"
    /\ \E opt \in optimizer, db_error \in BOOLEAN :
          IF NoValidSolution(opt)
          THEN /\ ExceptHandler("ValueError")
               /\ UNCHANGED tx
          ELSE IF db_error
          THEN /\ ExceptHandler("DatabaseError")
               /\ UNCHANGED tx
          ELSE /\ tx' = {[deleted |-> RowsInRange(assignments, opt.start_date,
                                                  opt.end_date),
                          created |-> {}]}
               /\ pc' = "bulk_create"
               /\ UNCHANGED <<logs, result>>
    /\ UNCHANGED <<inputs, assignments, optimization_status, call, optimizer, budget>>

\* the rest of save_results: bulk_create inside the transaction and the commit on
\* leaving the with block; an error (the database's, or a (staff, date) pair that
\* exists already) rolls everything back and reaches generate_schedule's except
SaveBulkCreate ==
    /\ pc = "bulk_create"
    /\ \E opt \in optimizer, t \in tx, db_error \in BOOLEAN :
          LET rows == AssignmentsToCreate(opt)
          IN IF db_error \/ ~UniqueTogether(TxView(t) \cup rows)
             THEN /\ tx' = {}
                  /\ ExceptHandler(IF db_error THEN "DatabaseError" ELSE "IntegrityError")
                  /\ UNCHANGED <<assignments, call>>
             ELSE /\ assignments' = (assignments \ t.deleted) \cup t.created \cup rows
                  /\ tx' = {}
                  /\ call' = [call EXCEPT !.assignment_count =
                                 Cardinality({a \in rows : a.is_workday})]
                  /\ pc' = "saved"
                  /\ UNCHANGED <<logs, result>>
    /\ UNCHANGED <<inputs, optimization_status, optimizer, budget>>

\* the caller of DirectSolve goes on and calls save_results() on its optimizer:
\* ValueError without a valid solution, else the delete and the bulk_create in
\* one transaction, committed when the with block is left or rolled back on a
\* database error
DirectSaveResults ==
    /\ pc = "done"
    /\ call.kind = "direct"
    /\ \E opt \in optimizer, db_error \in BOOLEAN :
          LET deleted == RowsInRange(assignments, opt.start_date, opt.end_date)
              rows == AssignmentsToCreate(opt)
          IN IF NoValidSolution(opt)
             THEN /\ result' = {[success |-> FALSE, raised |-> "ValueError"]}
                  /\ UNCHANGED assignments
             ELSE IF db_error
             THEN /\ result' = {[success |-> FALSE, raised |-> "DatabaseError"]}
                  /\ UNCHANGED assignments
             ELSE IF ~UniqueTogether((assignments \ deleted) \cup rows)
             THEN /\ result' = {[success |-> FALSE, raised |-> "IntegrityError"]}
                  /\ UNCHANGED assignments
             ELSE /\ result' = {[success |-> TRUE,
                                 assignments_count |->
                                     Cardinality({a \in rows : a.is_workday})]}
                  /\ assignments' = (assignments \ deleted) \cup rows
    /\ call' = [call EXCEPT !.kind = "direct_save"]
    /\ UNCHANGED <<inputs, logs, optimization_status, pc, optimizer, tx, budget>>

\* step 5 of generate_schedule: the success log and the returned dictionary
LogSuccess ==
    /\ pc = "saved"
    /\ logs' = LogExecution(call.period_id, <<"created", call.assignment_count>>, TRUE)
    /\ result' = {[success |-> TRUE,
                   message |-> <<"completed", call.assignment_count>>,
                   assignments_count |-> call.assignment_count]}
    /\ pc' = "done"
    /\ UNCHANGED <<inputs, assignments, optimization_status, call, optimizer, tx,
                   budget>>

\* ----------------------------------------------- tasks.optimize_schedule_task
\* the Celery task is submitted for a period
OptimizeScheduleTask(period_id) ==
    /\ pc \in {"idle", "done"}
    /\ budget > 0
    /\ budget' = budget - 1
    /\ pc' = "task_run"
    /\ call' = [kind |-> "task", period_id |-> period_id, retries |-> 0,
                before |-> assignments, logs_before |-> logs, solver |-> "not called",
                assignment_count |-> 0, score |-> 0, executions |-> 0,
                countdowns |-> <<>>, previous |-> FinishedRun]
    /\ optimizer' = {}
    /\ result' = {}
    /\ UNCHANGED <<inputs, assignments, logs, optimization_status, tx>>

\* mutant of Countdown: the wait grows by 60 with every retry instead of doubling
CountdownLinear(retries) == 60 * (retries + 1)

\* countdown=60 * (2 ** self.request.retries)
Countdown(retries) == 60 * (2 ^ retries)

\* the except clause of the task: retry while retries < max_retries, else record
\* the failure on the period (unless it cannot be loaded) and re-raise;
\* call.executions counts the runs of the try block and call.countdowns keeps the
\* countdown of every retry asked for
TaskExcept(exc) ==
    IF call.retries < max_retries
    THEN /\ call' = [call EXCEPT !.executions = call.executions + 1,
                                 !.countdowns = Append(call.countdowns,
                                                       Countdown(call.retries))]
         /\ pc' = "task_retry"
         /\ UNCHANGED <<optimization_status, result>>
    ELSE /\ call' = [call EXCEPT !.executions = call.executions + 1]
         /\ optimization_status' =
                IF call.period_id \in DOMAIN periods
                THEN [optimization_status EXCEPT ![call.period_id] = "failed"]
                ELSE optimization_status
         /\ result' = {[success |-> FALSE, raised |-> exc]}
         /\ pc' = "done"

\* the try block of the task: load the period, delete the assignments of its date
\* range (no transaction: the delete is committed at once), then ShiftOptimizer()
\* without the period_id its __init__ requires, which raises TypeError; lines 47-72
\* are never reached
TaskRun ==
    /\ pc = "task_run"
    /\ IF call.period_id \in DOMAIN periods
       THEN /\ assignments' = assignments \
                    RowsInRange(assignments, periods[call.period_id].start_date,
                                periods[call.period_id].end_date)
            /\ TaskExcept("TypeError")
       ELSE /\ TaskExcept("DoesNotExist")
            /\ UNCHANGED assignments
    /\ UNCHANGED <<inputs, logs, optimizer, tx, budget>>

\* mutant of TaskRetry: the task is run again with the same request.retries
TaskRetrySameCount ==
    /\ pc = "task_retry"
    /\ call' = call
    /\ pc' = "task_run"
    /\ UNCHANGED <<inputs, assignments, logs, optimization_status, optimizer, tx,
                   result, budget>>

\* Celery runs the task again after the countdown, with request.retries one higher
TaskRetry ==
    /\ pc = "task_retry"
    /\ call' = [call EXCEPT !.retries = call.retries + 1]
    /\ pc' = "task_run"
    /\ UNCHANGED <<inputs, assignments, logs, optimization_status, optimizer, tx,
                   result, budget>>

\* ------------------------------ ShiftSchedulerService.get_optimization_statistics
\* mutant of Fulfils: only a strong wish to work (priority 3) counts as a wish to work
FulfilsWantOnly(request, assignment) ==
    \/ request.priority = 1 /\ ~assignment.is_workday
    \/ request.priority = 3 /\ assignment.is_workday

\* the if / elif of the loop over the requests: the assignment grants the request
Fulfils(request, assignment) ==
    \/ request.priority = 1 /\ ~assignment.is_workday
    \/ request.priority \in {2, 3} /\ assignment.is_workday

\* round(n / d, 1) counted in tenths for the argument 10 * n / d: the nearest
\* integer to n / d, a tie going to the even one (what round() does with a float
\* that holds the tie exactly)
RoundHalfEven(n, d) ==
    LET q == n \div d
        r == n % d
    IN IF 2 * r < d THEN q
       ELSE IF 2 * r > d THEN q + 1
       ELSE IF q % 2 = 0 THEN q ELSE q + 1

\* round(fulfilled_requests / total_requests * 100, 1), or 0 without requests;
\* the value is kept in tenths of a percent (700 is 70.0)
FulfillmentRate(fulfilled_requests, total_requests) ==
    IF total_requests > 0
    THEN RoundHalfEven(fulfilled_requests * 1000, total_requests)
    ELSE 0

\* the dictionary get_optimization_statistics returns; the empty dictionary when
\* the period does not exist (the except clause)
StatisticsOf(period_id) ==
    IF period_id \notin DOMAIN periods
    THEN <<>>
    ELSE LET period == periods[period_id]
             rows == RowsInRange(assignments, period.start_date, period.end_date)
             requests == {r \in shift_requests : r.period = period_id}
             first(r) == {a \in rows : a.staff = r.staff /\ a.date = r.date}
             fulfilled == {r \in requests :
                              /\ first(r) # {}
                              /\ Fulfils(r, CHOOSE a \in first(r) : TRUE)}
             total_assignments == Cardinality(rows)
             workday_assignments == Cardinality({a \in rows : a.is_workday})
         IN [total_assignments   |-> total_assignments,
             workday_assignments |-> workday_assignments,
             holiday_assignments |-> total_assignments - workday_assignments,
             total_requests      |-> Cardinality(requests),
             fulfilled_requests  |-> Cardinality(fulfilled),
             fulfillment_rate    |-> FulfillmentRate(Cardinality(fulfilled),
                                                     Cardinality(requests))]

\* a caller invokes ShiftSchedulerService.get_optimization_statistics(period_id)
GetOptimizationStatistics(period_id) ==
    /\ pc \in {"idle", "done"}
    /\ budget > 0
    /\ budget' = budget - 1
    /\ call' = [kind |-> "statistics", period_id |-> period_id, retries |-> 0,
                before |-> assignments, logs_before |-> logs, solver |-> "not called",
                assignment_count |-> 0, score |-> 0, executions |-> 0,
                countdowns |-> <<>>, previous |-> {}]
    /\ result' = {StatisticsOf(period_id)}
    /\ pc' = "done"
    /\ UNCHANGED <<inputs, assignments, logs, optimization_status, optimizer, tx>>

\* ------------------------------------------------------ initial states
\* the stored rows before any job runs; every job finds the database in a state
\* the administrators and the staff can have produced
TypeOK ==
    /\ pc \in {"idle", "init", "create", "solve", "save", "bulk_create", "saved",
               "task_run", "task_retry", "done"}
    /\ budget \in 0..MaxCalls
    /\ Cardinality(optimizer) <= 1
    /\ Cardinality(tx) <= 1
    /\ Cardinality(result) <= 1
    /\ UniqueTogether(assignments)

\* what no job has touched yet
InitJob ==
    /\ logs = <<>>
    /\ optimization_status = [p \in DOMAIN periods |-> "pending"]
    /\ pc = "idle"
    /\ call = [kind |-> "none", period_id |-> MissingPeriodId, retries |-> 0,
               before |-> {}, logs_before |-> <<>>, solver |-> "not called",
               assignment_count |-> 0, score |-> 0, executions |-> 0,
               countdowns |-> <<>>, previous |-> {}]
    /\ optimizer = {}
    /\ tx = {}
    /\ result = {}

\* one period of NumDays - 1 days that starts on day 1 or on day 2
InitPeriods ==
    \E start \in {1, 2} :
        periods = [p \in PeriodIds |->
                     [start_date |-> start, end_date |-> start + NumDays - 2]]

FirstDay == periods["p1"].start_date
OutsideDay == IF FirstDay = 1 THEN NumDays ELSE 1

\* the WorkStyle rows tried: a tight consecutive limit, a minimum of three
\* shifts, and a maximum of one shift
Policies ==
    {[min_shifts_per_month |-> 1, max_shifts_per_month |-> 2, allow_consecutive_days |-> 1],
     [min_shifts_per_month |-> 3, max_shifts_per_month |-> 3, allow_consecutive_days |-> 2],
     [min_shifts_per_month |-> 0, max_shifts_per_month |-> 1, allow_consecutive_days |-> 2]}

\* the service in its surroundings: earlier assignments of every kind in and out of
\* the period, the default holiday type present or not, an off-request, a staffing
\* minimum that can or cannot be met, for a job type somebody or nobody has
Init ==
    /\ InitPeriods
    /\ InitJob
    /\ budget = MaxCalls
    /\ \E policy \in Policies, styled \in BOOLEAN,
          rest \in [Staff \ {1} -> {<<TRUE, {"nurse"}>>, <<FALSE, {"nurse"}>>, <<TRUE, {}>>}] :
          /\ styled \/ policy = CHOOSE p \in Policies : TRUE
          /\ work_styles = [w \in WorkStyleIds |-> policy]
          /\ staff = [s \in Staff |->
                        IF s = 1
                        THEN [is_active |-> TRUE, job_type |-> {"nurse"},
                              work_style |-> IF styled THEN {"fulltime"} ELSE {}]
                        ELSE [is_active |-> rest[s][1], job_type |-> rest[s][2],
                              work_style |-> {}]]
    /\ shift_requests \in
          {{}, {[staff |-> 1, period |-> "p1", date |-> FirstDay, priority |-> PriorityOff]}}
    /\ daily_requirements \in
          {{}} \cup {{[period |-> "p1", date |-> FirstDay, job_type |-> r[1],
                       min_staff_count |-> r[2]]} :
                        r \in {<<"nurse", 1>>, <<"nurse", NumStaff + 1>>, <<"doctor", 1>>}}
    /\ holiday_types \in {{"paid"}, {"paid", DefaultHolidayName}}
    /\ assignments \in SUBSET {
          [staff |-> 1, date |-> FirstDay, is_workday |-> TRUE, holiday_type |-> {},
           created_by_ai |-> TRUE, manually_adjusted |-> FALSE],
          [staff |-> NumStaff, date |-> FirstDay + 1, is_workday |-> FALSE,
           holiday_type |-> {"paid"}, created_by_ai |-> FALSE, manually_adjusted |-> TRUE],
          [staff |-> 1, date |-> OutsideDay, is_workday |-> TRUE, holiday_type |-> {},
           created_by_ai |-> TRUE, manually_adjusted |-> FALSE]}

Next ==
    \/ \E period_id \in PeriodIds \cup {MissingPeriodId} : GenerateSchedule(period_id)
    \/ OptimizerInit
    \/ CreateProblem
    \/ Solve
    \/ SaveDelete
    \/ SaveBulkCreate
    \/ LogSuccess
    \/ \E period_id \in PeriodIds \cup {MissingPeriodId} : OptimizeScheduleTask(period_id)
    \/ TaskRun
    \/ TaskRetry

Spec == Init /\ [][Next]_vars

\* the stored rows the statistics are asked about: every worker active, requests
\* of every priority for the days of the period (ShiftRequest.clean keeps a
\* request's date inside its period), and for each day of worker 1 no
\* assignment, a workday or a day off, in and out of the period
StatsInit ==
    /\ InitPeriods
    /\ InitJob
    /\ budget = MaxCalls
    /\ work_styles = [w \in WorkStyleIds |-> CHOOSE p \in Policies : TRUE]
    /\ staff = [s \in Staff |-> [is_active |-> TRUE, job_type |-> {"nurse"},
                                 work_style |-> {}]]
    /\ daily_requirements = {}
    /\ holiday_types = {"paid", DefaultHolidayName}
    /\ shift_requests \in
          {{[staff |-> 1, period |-> "p1", date |-> d, priority |-> f[d]] :
                d \in {e \in FirstDay..periods["p1"].end_date : f[e] # 0}} :
             f \in [FirstDay..periods["p1"].end_date -> 0..3]}
    /\ assignments \in
          {{[staff |-> 1, date |-> d, is_workday |-> g[d] = 1,
             holiday_type |-> IF g[d] = 1 THEN {} ELSE {"paid"},
             created_by_ai |-> TRUE, manually_adjusted |-> FALSE] :
                d \in {e \in Days : g[e] # 0}} :
             g \in [Days -> 0..2]}

\* the service, the task, and callers that use the optimizer directly
PipelineNext ==
    \/ Next
    \/ \E period_id \in PeriodIds \cup {MissingPeriodId} : DirectSolve(period_id)

PipelineSpec == Init /\ [][PipelineNext]_vars

\* the stored rows a direct user of the optimizer finds: requests of every
\* priority, or none, for the first two days of worker 1 and a strong wish to
\* work of worker 2, one work style, a staffing minimum or none, and earlier
\* assignments in and out of the period
DirectCallerInit ==
    /\ InitPeriods
    /\ InitJob
    /\ budget = 1
    /\ \E policy \in Policies, second_active \in BOOLEAN :
          /\ work_styles = [w \in WorkStyleIds |-> policy]
          /\ staff = [s \in Staff |->
                        IF s = 1
                        THEN [is_active |-> TRUE, job_type |-> {"nurse"},
                              work_style |-> {"fulltime"}]
                        ELSE [is_active |-> second_active, job_type |-> {"nurse"},
                              work_style |-> {}]]
    /\ shift_requests \in
          {{[staff |-> k[1], period |-> "p1", date |-> k[2], priority |-> f[k]] :
                k \in {j \in DOMAIN f : f[j] # 0}} :
             f \in [{<<1, FirstDay>>, <<1, FirstDay + 1>>, <<NumStaff, FirstDay>>}
                        -> 0..3]}
    /\ daily_requirements \in
          {{}, {[period |-> "p1", date |-> FirstDay, job_type |-> "nurse",
                 min_staff_count |-> 1]}}
    /\ holiday_types = {"paid", DefaultHolidayName}
    /\ assignments \in
          {{}, {[staff |-> 1, date |-> FirstDay, is_workday |-> TRUE,
                 holiday_type |-> {}, created_by_ai |-> TRUE,
                 manually_adjusted |-> FALSE],
                [staff |-> NumStaff, date |-> FirstDay + 1, is_workday |-> FALSE,
                 holiday_type |-> {"paid"}, created_by_ai |-> FALSE,
                 manually_adjusted |-> TRUE],
                [staff |-> 1, date |-> OutsideDay, is_workday |-> TRUE,
                 holiday_type |-> {}, created_by_ai |-> TRUE,
                 manually_adjusted |-> FALSE]}}

\* a caller that uses the optimizer directly: construct, build or not, solve, save
OptimizerNext ==
    \/ \E period_id \in PeriodIds \cup {MissingPeriodId} : DirectSolve(period_id)
    \/ DirectSaveResults

OptimizerSpec == DirectCallerInit /\ [][OptimizerNext]_vars

\* --------------------------------------------------------- concurrent runs
\* Runs that overlap in time: each run is a generate_schedule call or a task
\* execution of its own, with its own ShiftOptimizer and its own database
\* connection; pc, call, optimizer, tx and result hold one value per run, the
\* stored rows and the logs are shared.
Runs == 1..NumRuns
ConcPeriodIds == {"p1", "p2"}

\* two periods, whose date ranges share a day or do not (SchedulePeriod has no
\* validation across periods), every worker an active nurse, worker 1 with at
\* most one shift per period so that the solver has two optimal answers, and
\* earlier assignments on the days of both periods
ConcInit ==
    /\ \E start \in {NumDays - 2, NumDays - 1} :
          periods = [p \in ConcPeriodIds |->
                       IF p = "p1"
                       THEN [start_date |-> 1, end_date |-> NumDays - 2]
                       ELSE [start_date |-> start, end_date |-> start + 1]]
    /\ work_styles = [w \in WorkStyleIds |->
                         [min_shifts_per_month |-> 0, max_shifts_per_month |-> 1,
                          allow_consecutive_days |-> 2]]
    /\ staff = [s \in Staff |->
                  [is_active |-> TRUE, job_type |-> {"nurse"},
                   work_style |-> IF s = 1 THEN {"fulltime"} ELSE {}]]
    /\ shift_requests = {}
    /\ daily_requirements = {}
    /\ holiday_types = {"paid", DefaultHolidayName}
    /\ assignments \in SUBSET
          {[staff |-> 1, date |-> 1, is_workday |-> TRUE, holiday_type |-> {},
            created_by_ai |-> TRUE, manually_adjusted |-> FALSE],
           [staff |-> NumStaff, date |-> NumDays - 2, is_workday |-> FALSE,
            holiday_type |-> {"paid"}, created_by_ai |-> FALSE,
            manually_adjusted |-> TRUE],
           [staff |-> 1, date |-> NumDays - 1, is_workday |-> TRUE,
            holiday_type |-> {}, created_by_ai |-> TRUE, manually_adjusted |-> FALSE]}
    /\ logs = <<>>
    /\ optimization_status = [p \in ConcPeriodIds |-> "pending"]
    /\ budget = NumRuns
    /\ pc = [r \in Runs |-> "idle"]
    /\ call = [r \in Runs |-> [kind |-> "none", period_id |-> MissingPeriodId,
                                retries |-> 0, before |-> {}]]
    /\ optimizer = [r \in Runs |-> {}]
    /\ tx = [r \in Runs |-> {}]
    /\ result = [r \in Runs |-> {}]

\* unique_together = ('staff', 'date') when rows are inserted: a stored row with
\* the pair of a new row, whatever its other columns
KeyConflict(stored, rows) ==
    \E a \in stored, b \in rows : a.staff = b.staff /\ a.date = b.date

\* the open transactions of the other runs after run r removed the rows gone:
\* a row somebody else has deleted is no longer theirs to delete
OthersAfterDelete(r, gone) ==
    [q \in Runs |-> IF q = r THEN tx[q]
                    ELSE {[t EXCEPT !.deleted = t.deleted \ gone] : t \in tx[q]}]

\* the except clause of generate_schedule in run r
ConcExceptHandler(r, exc) ==
    /\ logs' = LogExecution(call[r].period_id, <<"error", exc>>, FALSE)
    /\ result' = [result EXCEPT ![r] = {[success |-> FALSE,
                                         message |-> <<"schedule_error", exc>>,
                                         assignments_count |-> 0]}]
    /\ pc' = [pc EXCEPT ![r] = "done"]

\* run r is a call of generate_schedule(period_id)
ConcGenerateSchedule(r, period_id) ==
    /\ pc[r] = "idle"
    /\ budget' = budget - 1
    /\ pc' = [pc EXCEPT ![r] = "solve"]
    /\ call' = [call EXCEPT ![r] = [kind |-> "service", period_id |-> period_id,
                                    retries |-> 0, before |-> assignments]]
    /\ UNCHANGED <<inputs, assignments, logs, optimization_status, optimizer, tx,
                   result>>

\* steps 1 to 3 of generate_schedule in run r: the optimizer is constructed, the
\* model created and solved; none of it writes to the store, so the three are
\* one step
ConcSolve(r) ==
    /\ pc[r] = "solve"
    /\ LET fresh == NewOptimizer(call[r].period_id)
           opt == [fresh EXCEPT !.is_working = CreateDecisionVariables(fresh),
                                !.problem = {CreateOptimizationProblem(fresh)}]
       IN \E o \in SolveOutcomes(opt) :
             /\ optimizer' = [optimizer EXCEPT
                                 ![r] = {[opt EXCEPT !.status = o.status,
                                                     !.values = o.values]}]
             /\ IF o.success
                THEN /\ pc' = [pc EXCEPT ![r] = "save"]
                     /\ UNCHANGED <<logs, result>>
                ELSE /\ logs' = LogExecution(call[r].period_id, o.message, FALSE)
                     /\ result' = [result EXCEPT
                                      ![r] = {[success |-> FALSE, message |-> o.message,
                                               assignments_count |-> 0]}]
                     /\ pc' = [pc EXCEPT ![r] = "done"]
    /\ UNCHANGED <<inputs, assignments, optimization_status, call, tx, budget>>

\* save_results in run r up to the delete: the transaction is opened and the
\* rows of the date range that are stored now are deleted inside it
ConcSaveDelete(r) ==
    /\ pc[r] = "save"
    /\ \E opt \in optimizer[r], db_error \in BOOLEAN :
          IF NoValidSolution(opt)
          THEN /\ ConcExceptHandler(r, "ValueError")
               /\ UNCHANGED tx
          ELSE IF db_error
          THEN /\ ConcExceptHandler(r, "DatabaseError")
               /\ UNCHANGED tx
          ELSE /\ tx' = [tx EXCEPT
                            ![r] = {[deleted |-> RowsInRange(assignments, opt.start_date,
                                                             opt.end_date),
                                     created |-> {}]}]
               /\ pc' = [pc EXCEPT ![r] = "bulk_create"]
               /\ UNCHANGED <<logs, result>>
    /\ UNCHANGED <<inputs, assignments, optimization_status, call, optimizer, budget>>

\* the bulk_create and the end of the atomic block in run r: the new rows go in
\* and the transaction commits, or a row of another run already holds one of the
\* pairs (or the database fails) and the transaction is rolled back
ConcSaveBulkCreate(r) ==
    /\ pc[r] = "bulk_create"
    /\ \E opt \in optimizer[r], t \in tx[r], db_error \in BOOLEAN :
          LET rows == AssignmentsToCreate(opt)
          IN IF db_error \/ KeyConflict(assignments \ t.deleted, rows)
             THEN /\ tx' = [tx EXCEPT ![r] = {}]
                  /\ ConcExceptHandler(r, IF db_error THEN "DatabaseError"
                                          ELSE "IntegrityError")
                  /\ UNCHANGED assignments
             ELSE /\ assignments' = (assignments \ t.deleted) \cup rows
                  /\ tx' = [OthersAfterDelete(r, t.deleted) EXCEPT ![r] = {}]
                  /\ pc' = [pc EXCEPT ![r] = "saved"]
                  /\ UNCHANGED <<logs, result>>
    /\ UNCHANGED <<inputs, optimization_status, call, optimizer, budget>>

\* step 5 of generate_schedule in run r
ConcLogSuccess(r) ==
    /\ pc[r] = "saved"
    /\ \E opt \in optimizer[r] :
          LET count == Cardinality({a \in AssignmentsToCreate(opt) : a.is_workday})
          IN /\ logs' = LogExecution(call[r].period_id, <<"created", count>>, TRUE)
             /\ result' = [result EXCEPT
                              ![r] = {[success |-> TRUE,
                                       message |-> <<"completed", count>>,
                                       assignments_count |-> count]}]
    /\ pc' = [pc EXCEPT ![r] = "done"]
    /\ UNCHANGED <<inputs, assignments, optimization_status, call, optimizer, tx,
                   budget>>

\* run r is an execution of the task optimize_schedule_task(period_id)
ConcOptimizeScheduleTask(r, period_id) ==
    /\ pc[r] = "idle"
    /\ budget' = budget - 1
    /\ pc' = [pc EXCEPT ![r] = "task_run"]
    /\ call' = [call EXCEPT ![r] = [kind |-> "task", period_id |-> period_id,
                                    retries |-> 0, before |-> assignments]]
    /\ UNCHANGED <<inputs, assignments, logs, optimization_status, optimizer, tx,
                   result>>

\* one attempt of the task in run r: the delete of the date range, committed at
\* once, then TypeError from ShiftOptimizer() and the except clause
ConcTaskRun(r) ==
    /\ pc[r] = "task_run"
    /\ LET gone == RowsInRange(assignments, periods[call[r].period_id].start_date,
                               periods[call[r].period_id].end_date)
       IN /\ assignments' = assignments \ gone
          /\ tx' = OthersAfterDelete(r, gone)
    /\ IF call[r].retries < max_retries
       THEN /\ pc' = [pc EXCEPT ![r] = "task_retry"]
            /\ UNCHANGED <<optimization_status, result>>
       ELSE /\ optimization_status' =
                   [optimization_status EXCEPT ![call[r].period_id] = "failed"]
            /\ result' = [result EXCEPT
                             ![r] = {[success |-> FALSE, raised |-> "TypeError"]}]
            /\ pc' = [pc EXCEPT ![r] = "done"]
    /\ UNCHANGED <<inputs, logs, call, optimizer, budget>>

\* Celery runs the task of run r again, with request.retries one higher
ConcTaskRetry(r) ==
    /\ pc[r] = "task_retry"
    /\ call' = [call EXCEPT ![r].retries = call[r].retries + 1]
    /\ pc' = [pc EXCEPT ![r] = "task_run"]
    /\ UNCHANGED <<inputs, assignments, logs, optimization_status, optimizer, tx,
                   result, budget>>

ConcNext ==
    \E r \in Runs :
        \/ \E period_id \in ConcPeriodIds : ConcGenerateSchedule(r, period_id)
        \/ ConcSolve(r)
        \/ ConcSaveDelete(r)
        \/ ConcSaveBulkCreate(r)
        \/ ConcLogSuccess(r)
        \/ \E period_id \in ConcPeriodIds : ConcOptimizeScheduleTask(r, period_id)
        \/ ConcTaskRun(r)
        \/ ConcTaskRetry(r)

ConcSpec == ConcInit /\ [][ConcNext]_vars

\* the Job Runner alone: jobs are submitted, and the worker runs every queued
\* attempt and every retry whose countdown has passed
TaskNext ==
    \/ \E period_id \in PeriodIds \cup {MissingPeriodId} : OptimizeScheduleTask(period_id)
    \/ TaskRun
    \/ TaskRetry

TaskSpec == Init /\ [][TaskNext]_vars /\ WF_vars(TaskRun) /\ WF_vars(TaskRetry)

StatsNext ==
    \E period_id \in PeriodIds \cup {MissingPeriodId} :
        GetOptimizationStatistics(period_id)

StatsSpec == StatsInit /\ [][StatsNext]_vars

\* ------------------------------------------------------------- properties
\* generate_schedule has returned success = True and no other job has started
RunSucceeded ==
    /\ pc = "done"
    /\ call.kind = "service"
    /\ \E r \in result : r.success

\* the period the running job is about (only used where the period exists)
ThePeriod == periods[call.period_id]
PeriodDays == ThePeriod.start_date..ThePeriod.end_date

\* the stored rows of one (staff, date) pair
StoredFor(s, date) == {a \in assignments : a.staff = s /\ a.date = date}

\* the number of the worker's stored workdays among the given days
WorkdaysOf(s, days) ==
    Cardinality({a \in assignments : a.staff = s /\ a.date \in days /\ a.is_workday})

\* the stored off-requests of active workers for days of the job's period
OffRequested ==
    {r \in shift_requests :
        /\ r.period = call.period_id
        /\ r.priority = PriorityOff
        /\ staff[r.staff].is_active
        /\ r.date \in PeriodDays}

\* C1: after a successful run every (active worker, day of the period) with a
\* loaded priority-1 preference is stored as a non-workday
C1_OffRequestsAreDaysOff ==
    RunSucceeded =>
        \A r \in OffRequested :
            /\ StoredFor(r.staff, r.date) # {}
            /\ \A a \in StoredFor(r.staff, r.date) : ~a.is_workday

\* C1 witness: a successful run with an off-request on a day whose staffing
\* minimum asks for the requesting worker's job type
C1_Witness ==
    /\ RunSucceeded
    /\ \E r \in OffRequested : \E q \in daily_requirements :
          /\ q.date = r.date
          /\ q.job_type \in staff[r.staff].job_type
          /\ q.min_staff_count >= 1
          /\ \A a \in StoredFor(r.staff, r.date) : ~a.is_workday

\* C2: after a successful run every recorded requirement of the period is met by
\* the stored workdays of workers of its job type, whoever has that job type
C2_EveryMinimumIsMet ==
    RunSucceeded =>
        \A q \in daily_requirements :
            q.period = call.period_id =>
                Cardinality({a \in assignments :
                                /\ a.date = q.date
                                /\ a.is_workday
                                /\ q.job_type \in staff[a.staff].job_type})
                    >= q.min_staff_count

\* C3: after a successful run every active worker with a work style has between
\* min_shifts_per_month and max_shifts_per_month stored workdays in the period
C3_MonthlyBoundsHold ==
    RunSucceeded =>
        \A s \in Staff :
            (staff[s].is_active /\ staff[s].work_style # {}) =>
                \A w \in staff[s].work_style :
                    /\ WorkdaysOf(s, PeriodDays) <= work_styles[w].max_shifts_per_month
                    /\ work_styles[w].min_shifts_per_month > 0 =>
                          WorkdaysOf(s, PeriodDays) >= work_styles[w].min_shifts_per_month

\* C3 witness: a successful run in which a worker's stored workdays sit on the
\* policy's maximum although the period has more days
C3_Witness ==
    /\ RunSucceeded
    /\ \E s \in Staff : \E w \in staff[s].work_style :
          /\ staff[s].is_active
          /\ WorkdaysOf(s, PeriodDays) = work_styles[w].max_shifts_per_month
          /\ work_styles[w].max_shifts_per_month < Cardinality(PeriodDays)
          /\ work_styles[w].max_shifts_per_month <= work_styles[w].allow_consecutive_days

\* C4: after a successful run no window of C+1 consecutive days of the period,
\* the last one included, holds more than C stored workdays of a worker whose
\* work style allows C > 0 consecutive days
C4_NoLongerRunThanAllowed ==
    RunSucceeded =>
        \A s \in Staff :
            (staff[s].is_active /\ staff[s].work_style # {}) =>
                \A w \in staff[s].work_style :
                    LET C == work_styles[w].allow_consecutive_days
                    IN C > 0 =>
                         \A first \in ThePeriod.start_date..(ThePeriod.end_date - C) :
                             WorkdaysOf(s, first..(first + C)) <= C

\* C4 witness: a successful run in which the last window of the period is full:
\* C workdays in the C+1 days that end on the period's end date
C4_Witness ==
    /\ RunSucceeded
    /\ \E s \in Staff : \E w \in staff[s].work_style :
          LET C == work_styles[w].allow_consecutive_days
          IN /\ staff[s].is_active
             /\ C > 0
             /\ ThePeriod.end_date - C >= ThePeriod.start_date
             /\ WorkdaysOf(s, (ThePeriod.end_date - C)..ThePeriod.end_date) = C

\* C5: after a successful run the stored rows of the period's date range are one
\* row per (active worker, day of the period) and nothing else
C5_OneRowPerActiveWorkerAndDay ==
    RunSucceeded =>
        LET rows == {a \in assignments :
                        ThePeriod.start_date <= a.date /\ a.date <= ThePeriod.end_date}
            active == {s \in Staff : staff[s].is_active}
        IN /\ \A a \in rows : a.staff \in active
           /\ \A s \in active, date \in PeriodDays :
                 Cardinality({a \in rows : a.staff = s /\ a.date = date}) = 1
           /\ Cardinality(rows) = Cardinality(active) * Cardinality(PeriodDays)

\* C5 witness: a successful run that found rows of an inactive worker and a
\* manually adjusted row in the range
C5_Witness ==
    /\ RunSucceeded
    /\ \E a \in call.before :
          /\ a.date \in PeriodDays
          /\ ~staff[a.staff].is_active
          /\ a.manually_adjusted

\* the stored rows whose day lies in the job's period
StoredInPeriod(rows) ==
    {a \in rows : ThePeriod.start_date <= a.date /\ a.date <= ThePeriod.end_date}

\* C6: every row the materializer wrote carries an off-type exactly when it is
\* not a workday, also when no holiday type has the default name
C6_OffTypeIffNotWorkday ==
    RunSucceeded =>
        \A a \in StoredInPeriod(assignments) : (a.holiday_type # {}) <=> ~a.is_workday

\* the model built from the stored rows of a period has no feasible point
InfeasiblePeriod(period_id) ==
    FeasibleSet(CreateOptimizationProblem(NewOptimizer(period_id))) = {}

\* a job on an existing period whose model is infeasible has ended: the service
\* call after the solver said so, or the task
InfeasibleJobEnded ==
    /\ pc = "done"
    /\ call.period_id \in DOMAIN periods
    /\ \/ call.kind = "service" /\ call.solver = "Infeasible"
       \/ call.kind = "task" /\ InfeasiblePeriod(call.period_id)

\* C7: a run on an infeasible model reports failure, writes no assignment and
\* leaves the period's stored optimization status 'failed'
C7_InfeasibleRunFailsThePeriod ==
    InfeasibleJobEnded =>
        /\ \A r \in result : ~r.success
        /\ assignments = call.before
        /\ optimization_status[call.period_id] = "failed"

\* generate_schedule has returned after the solver handed back a status that is
\* neither Optimal nor Feasible
NotSolvedReturned ==
    /\ pc = "done"
    /\ call.kind = "service"
    /\ call.solver \in {"Infeasible", "Not Solved", "Undefined", "Unbounded"}

\* C8: when the solver returns a status other than Optimal or Feasible the
\* assignments are what they were before the call, one failure log entry that
\* carries the status was appended, and the result is success = False with
\* assignments_count = 0
C8_NotSolvedWritesNothing ==
    NotSolvedReturned =>
        /\ assignments = call.before
        /\ logs = Append(call.logs_before,
                         [period_id   |-> call.period_id,
                          action      |-> "ai_create",
                          description |-> <<"no_solution", call.solver>>,
                          success     |-> FALSE])
        /\ result = {[success |-> FALSE, message |-> <<"no_solution", call.solver>>,
                      assignments_count |-> 0]}

\* C8 witness: the second call ends without a solution after the first call
\* succeeded, and the rows the first call stored are still there
C8_Witness ==
    /\ NotSolvedReturned
    /\ Len(call.logs_before) = 1
    /\ call.logs_before[1].success
    /\ StoredInPeriod(call.before) # {}
    /\ assignments = call.before

\* C9: outside the materialization the rows of the period's date range are the
\* set save_results found or the complete new set, and a failed call leaves the
\* set it found
C9_AllOrNothing ==
    (call.kind = "service" /\ call.period_id \in DOMAIN periods) =>
        /\ \/ StoredInPeriod(assignments) = StoredInPeriod(call.before)
           \/ /\ pc \in {"saved", "done"}
              /\ \E opt \in optimizer :
                    /\ opt.status \in SolvedStatuses
                    /\ StoredInPeriod(assignments) = AssignmentsToCreate(opt)
        /\ (pc = "done" /\ \E r \in result : ~r.success) => assignments = call.before

\* C9 witness: the delete has happened inside the open transaction and the rows
\* it deleted are still stored
C9_Witness ==
    /\ pc = "bulk_create"
    /\ \E t \in tx : t.deleted # {} /\ t.deleted \subseteq assignments

\* C9 second case, the insert failed after the delete: kept as part of the
\* witness of the rollback
C9_RollbackSeen ==
    /\ pc = "done"
    /\ call.kind = "service"
    /\ call.solver \in SolvedStatuses
    /\ \E r \in result : r.message = <<"schedule_error", "DatabaseError">>
    /\ StoredInPeriod(call.before) # {}
    /\ assignments = call.before

\* C10: every failed generate_schedule call ends with a returned dictionary
\* {success: False, message} and with one failure log entry appended
C10_FailureIsResultAndAuditEntry ==
    (pc = "done" /\ call.kind = "service" /\ \E r \in result : ~r.success) =>
        /\ \A r \in result : "message" \in DOMAIN r
        /\ Len(logs) = Len(call.logs_before) + 1
        /\ ~logs[Len(logs)].success

\* the exceptions that reach the except clause of generate_schedule
PipelineExceptions == {"DoesNotExist", "ValueError", "DatabaseError", "IntegrityError"}

\* a step of generate_schedule that ends in its except clause: the construction of
\* the optimizer or the materialization is left for the end of the call
RaisedInPipeline ==
    /\ call.kind = "service"
    /\ pc \in {"init", "save", "bulk_create"}
    /\ pc' = "done"

\* the ScheduleLog row the except clause asks for
ErrorLogEntry(exc) ==
    [period_id   |-> call.period_id,
     action      |-> "ai_create",
     description |-> <<"error", exc>>,
     success     |-> FALSE]

C12_OneLogEntryPerInvocation ==
    (pc = "done" /\ call.kind = "service") =>
        /\ Len(logs) = Len(call.logs_before) + 1
        /\ SubSeq(logs, 1, Len(call.logs_before)) = call.logs_before

\* C13 (amended): one submitted task runs at most max_retries + 1 = 4 times, the
\* first execution counted, and the countdowns of its retries are 60, 120, 240
C13_FourRunsDoublingWaits ==
    call.kind = "task" =>
        /\ call.executions <= max_retries + 1
        /\ Len(call.countdowns) <= max_retries
        /\ call.countdowns = SubSeq(<<60, 120, 240>>, 1, Len(call.countdowns))
        /\ pc = "done" => Len(call.countdowns) = call.executions - 1

\* C13 witness: a task that failed every time has run four times with the waits
\* 60, 120 and 240 between the runs
C13_Witness ==
    /\ pc = "done"
    /\ call.kind = "task"
    /\ call.executions = 4
    /\ call.countdowns = <<60, 120, 240>>

\* C13 as stated: one submitted task runs at most 3 times in total
C13_AtMostThreeRuns ==
    call.kind = "task" => call.executions <= 3

\* C14: a task whose period does not exist, or whose model is infeasible, never
\* asks for a retry
C14_TerminalFailuresNotRetried ==
    (/\ call.kind = "task"
     /\ \/ call.period_id \notin DOMAIN periods
        \/ InfeasiblePeriod(call.period_id)) =>
        /\ pc # "task_retry"
        /\ call.retries = 0
        /\ call.countdowns = <<>>

\* C15: a task on an existing period that failed until its retries were used up
\* leaves the period's status 'failed' and a final failure log entry
C15_ExhaustionFailsAndLogs ==
    (/\ call.kind = "task"
     /\ pc = "done"
     /\ call.period_id \in DOMAIN periods
     /\ call.retries = max_retries) =>
        /\ optimization_status[call.period_id] = "failed"
        /\ Len(logs) = Len(call.logs_before) + 1
        /\ ~logs[Len(logs)].success

\* C16: the stored assignments change only in the commit of save_results'
\* transaction; no other step deletes, creates or updates a row
C16_OnlySaveResultsWritesAssignments ==
    [][assignments' # assignments =>
          /\ call.kind = "service"
          /\ pc = "bulk_create"
          /\ tx # {}
          /\ tx' = {}]_vars

\* C17: after a successful run the period's status is 'completed' and a success
\* log entry was appended, and the status is not 'completed' after a failed run
C17_SuccessCompletesThePeriod ==
    /\ RunSucceeded =>
          /\ optimization_status[call.period_id] = "completed"
          /\ Len(logs) = Len(call.logs_before) + 1
          /\ logs[Len(logs)].success
    /\ (pc = "done" /\ call.period_id \in DOMAIN periods
            /\ \E r \in result : ~r.success) =>
          optimization_status[call.period_id] # "completed"

\* get_optimization_statistics has returned the statistics of an existing period
StatisticsReturned ==
    /\ pc = "done"
    /\ call.kind = "statistics"
    /\ call.period_id \in DOMAIN periods

\* C18: the returned fulfilled_requests counts the period's requests that have an
\* assignment of the same (worker, day) which is a day off for priority 1 and a
\* workday for priority 2 or 3; fulfillment_rate is fulfilled / total x 100 to the
\* nearest tenth (0 without requests, 70.0 for 7 of 10, 33.3 and 66.7 for 1 and 2
\* of 3, the ties 6.25 and 18.75 to the even tenths 6.2 and 18.8), and
\* fulfilled <= total
C18_FulfilledCountAndRate ==
    /\ StatisticsReturned =>
          \A st \in result :
              LET requests == {r \in shift_requests : r.period = call.period_id}
                  fulfilled ==
                      {r \in requests :
                          \E a \in assignments :
                              /\ a.staff = r.staff
                              /\ a.date = r.date
                              /\ \/ r.priority = 1 /\ ~a.is_workday
                                 \/ r.priority \in {2, 3} /\ a.is_workday}
                  diff == st.fulfillment_rate * st.total_requests
                              - 1000 * st.fulfilled_requests
              IN /\ st.total_requests = Cardinality(requests)
                 /\ st.fulfilled_requests = Cardinality(fulfilled)
                 /\ st.fulfilled_requests <= st.total_requests
                 /\ 2 * diff <= st.total_requests
                 /\ 2 * diff >= 0 - st.total_requests
                 /\ st.total_requests = 0 => st.fulfillment_rate = 0
    /\ FulfillmentRate(7, 10) = 700
    /\ FulfillmentRate(1, 3) = 333 /\ FulfillmentRate(2, 3) = 667
    /\ FulfillmentRate(1, 16) = 62 /\ FulfillmentRate(3, 16) = 188

\* C18 witness: of three requests two are fulfilled, an off-request by a day off
\* and a wish to work by a workday, the third has no assignment, and the rate
\* returned is 66.7
C18_Witness ==
    /\ StatisticsReturned
    /\ \E st \in result :
          /\ st.total_requests = 3
          /\ st.fulfilled_requests = 2
          /\ st.fulfillment_rate = 667
    /\ \E r \in shift_requests :
          \A a \in assignments : ~(a.staff = r.staff /\ a.date = r.date)
    /\ \E r \in shift_requests : \E a \in assignments :
          a.staff = r.staff /\ a.date = r.date /\ r.priority = 1 /\ ~a.is_workday
    /\ \E r \in shift_requests : \E a \in assignments :
          a.staff = r.staff /\ a.date = r.date /\ r.priority = 2 /\ a.is_workday

\* the statuses with which the solver answers when it ran to its end
SolverVerdicts == {"Optimal", "Feasible", "Infeasible", "Unbounded"}

\* generate_schedule has returned for an existing period, and the job before it
\* was a generate_schedule call for the same period; the stored inputs are the
\* same in both, since no job writes them
RerunReturned ==
    /\ pc = "done"
    /\ call.kind = "service"
    /\ call.period_id \in DOMAIN periods
    /\ \E p \in call.previous : p.period_id = call.period_id

\* C19: a second run on the unchanged inputs repeats the first: when the solver
\* answered in both runs it answered the same status and, for a solution, the
\* same objective value; and when both runs succeeded the stored rows of the
\* period are again one per (active worker, day), as many as after the first run
C19_RerunRepeatsTheOutcome ==
    RerunReturned =>
        \A p \in call.previous :
            /\ (p.solver \in SolverVerdicts /\ call.solver \in SolverVerdicts) =>
                  /\ call.solver = p.solver
                  /\ call.solver \in {"Optimal", "Feasible"} => call.score = p.score
            /\ (p.success /\ call.solver \in {"Optimal", "Feasible"}) =>
                  \/ RunSucceeded
                  \/ \E r \in result : r.message[1] = "schedule_error"
            /\ (p.success /\ RunSucceeded) =>
                  /\ \A s \in ActiveStaff, date \in PeriodDays :
                        Cardinality(StoredFor(s, date)) = 1
                  /\ Cardinality(StoredInPeriod(assignments))
                        = Cardinality(ActiveStaff) * Cardinality(PeriodDays)
                  /\ Cardinality(StoredInPeriod(assignments))
                        = Cardinality(StoredInPeriod(call.before))

\* C19 witness: both runs succeeded with the same objective value although the
\* second run stored another solution than the first
C19_Witness ==
    /\ RerunReturned
    /\ RunSucceeded
    /\ \E p \in call.previous : p.success /\ p.score = call.score /\ p.score > 0
    /\ StoredInPeriod(assignments) # StoredInPeriod(call.before)
    /\ Cardinality(StoredInPeriod(assignments)) = Cardinality(StoredInPeriod(call.before))

\* C20: within a run the stages follow each other in the order build inputs,
\* construct model, solve, materialize, each only after the one before returned
\* successfully: the model is constructed only for an optimizer that was built,
\* the solver runs only on a constructed model, the materialization starts and
\* writes only after the solver returned Optimal or Feasible; and solve() on an
\* optimizer whose model was never constructed returns failure without calling
\* the solver
C20_StagesInOrder ==
    [][/\ pc' = "create" =>
             /\ pc = "init"
             /\ call.period_id \in DOMAIN periods
             /\ optimizer' # {}
       /\ pc' = "solve" =>
             /\ pc = "create"
             /\ \A opt \in optimizer' : opt.problem # {}
       /\ pc' = "save" =>
             /\ pc = "solve"
             /\ call'.solver \in {"Optimal", "Feasible"}
       /\ pc' = "bulk_create" =>
             /\ pc = "save"
             /\ call.solver \in {"Optimal", "Feasible"}
       /\ (call.kind = "service" /\ assignments' # assignments) =>
             /\ pc = "bulk_create"
             /\ call.solver \in {"Optimal", "Feasible"}
       /\ (call'.kind = "direct" /\ \E opt \in optimizer' : opt.problem = {}) =>
             /\ call'.solver = "not called"
             /\ result' = {[success |-> FALSE, message |-> <<"not_defined">>]}
      ]_vars

\* C20 witness: solve() was called on an optimizer whose model was never
\* constructed and returned failure, the solver not called
C20_Witness ==
    /\ pc = "done"
    /\ call.kind = "direct"
    /\ call.solver = "not called"
    /\ \E opt \in optimizer : opt.problem = {} /\ opt.status = "Not Solved"
    /\ result = {[success |-> FALSE, message |-> <<"not_defined">>]}

\* the optimizer of a direct caller has no model, or a status other than Optimal
\* and Feasible
DirectOptimizerUnsolved ==
    \E opt \in optimizer : opt.problem = {} \/ opt.status \notin {"Optimal", "Feasible"}

\* C21: save_results called when no model exists, or when the status of the
\* solver is neither Optimal nor Feasible, raises ValueError before it touches
\* the store: no assignment is deleted, none is inserted, the set is unchanged
C21_SaveWithoutSolutionRaises ==
    [][(call.kind = "direct" /\ call'.kind = "direct_save" /\ DirectOptimizerUnsolved)
          => /\ result' = {[success |-> FALSE, raised |-> "ValueError"]}
             /\ assignments' = assignments
      ]_vars

\* C21 witness: save_results was called on a constructed model that the solver
\* found Infeasible, it raised ValueError, and the rows of the range are still
\* stored
C21_Witness ==
    /\ call.kind = "direct_save"
    /\ result = {[success |-> FALSE, raised |-> "ValueError"]}
    /\ \E opt \in optimizer :
          /\ opt.problem # {}
          /\ opt.status = "Infeasible"
          /\ RowsInRange(assignments, opt.start_date, opt.end_date) # {}
    /\ assignments = call.before

\* C27: an attempt of optimize_schedule_task that fails after the period was
\* loaded leaves the assignments of the period's date range as they were before
\* the attempt
C27_FailedAttemptKeepsAssignments ==
    [][(pc = "task_run" /\ pc' \in {"task_retry", "done"}
           /\ call.period_id \in DOMAIN periods)
          => StoredInPeriod(assignments') = StoredInPeriod(assignments)
      ]_vars

\* C28: the commit of save_results on a period leaves every stored row whose day
\* is outside the period's start_date..end_date as it was, and no row of the
\* range survives it, whoever it belongs to: the rows of the range are afterwards
\* the rows the run created, and the earlier rows of workers that are no longer
\* active and the rows marked manually adjusted are gone
C28_OutsideKeptInsideReplaced ==
    [][(pc = "bulk_create" /\ pc' = "saved")
          => /\ assignments' \ StoredInPeriod(assignments')
                   = assignments \ StoredInPeriod(assignments)
             /\ \E opt \in optimizer :
                   StoredInPeriod(assignments') = AssignmentsToCreate(opt)
             /\ \A a \in StoredInPeriod(assignments) :
                   (~staff[a.staff].is_active \/ a.manually_adjusted)
                       => a \notin assignments'
      ]_vars

\* C28 witness: a successful run on a store that held a row outside the range,
\* still there, and a manually adjusted row of an inactive worker inside the
\* range, now gone
C28_Witness ==
    /\ RunSucceeded
    /\ \E a \in call.before :
          /\ a.date \notin PeriodDays
          /\ a \in assignments
    /\ \E a \in call.before :
          /\ a.date \in PeriodDays
          /\ ~staff[a.staff].is_active
          /\ a.manually_adjusted
          /\ a \notin assignments

\* the days from start_date to end_date in order, both included
DaysInOrder(start_date, end_date) ==
    [i \in 1..(end_date - start_date + 1) |-> start_date + i - 1]

\* C24: constructing a ShiftOptimizer gives the ordered sequence of every day
\* from the period's start date to its end date, both included (end - start + 1
\* days, none when start is after end), fails with DoesNotExist when the period
\* id is unknown, and changes nothing in the store: periods, workers,
\* preferences, requirements, assignments and logs are the same afterwards
C24_BuilderDaysAndNoMutation ==
    [][((pc = "init" /\ pc' # "init") \/ (call'.kind = "direct" /\ budget' # budget))
          => /\ inputs' = inputs
             /\ assignments' = assignments
             /\ logs' = logs
             /\ optimization_status' = optimization_status
             /\ IF call'.period_id \in DOMAIN periods
                THEN \E opt \in optimizer' :
                        /\ opt.period_id = call'.period_id
                        /\ opt.date_range =
                               DaysInOrder(periods[opt.period_id].start_date,
                                           periods[opt.period_id].end_date)
                        /\ Len(opt.date_range) = periods[opt.period_id].end_date
                               - periods[opt.period_id].start_date + 1
                        /\ opt.staff_list = {s \in Staff : staff[s].is_active}
                ELSE /\ optimizer' = IF call'.kind = "direct" THEN {} ELSE optimizer
                     /\ \E r \in result' :
                           /\ ~r.success
                           /\ IF call'.kind = "direct"
                              THEN r.raised = "DoesNotExist"
                              ELSE r.message = <<"schedule_error", "DoesNotExist">>
             /\ GenerateDateRange([start_date |-> 2, end_date |-> 1]) = <<>>
             /\ GenerateDateRange([start_date |-> 3, end_date |-> 3]) = <<3>>
      ]_vars

\* C24 witness: an optimizer was constructed for a period that starts on day 2
\* and holds its three days in order, with rows stored in and out of the range
C24_Witness ==
    /\ pc = "create"
    /\ \E opt \in optimizer :
          /\ opt.start_date = 2
          /\ opt.date_range = <<2, 3, 4>>
          /\ opt.problem = {}
    /\ \E a, b \in assignments : a.date \in PeriodDays /\ b.date \notin PeriodDays
    /\ assignments = call.before

\* the recorded requirements (day, job type) of the job's period, for a day of the
\* period, whose job type no active worker has
UncoveredRequirements ==
    {r \in daily_requirements :
        /\ r.period = call.period_id
        /\ r.date \in PeriodDays
        /\ ~\E s \in Staff : staff[s].is_active /\ r.job_type \in staff[s].job_type}

\* C26: a minimum-staffing constraint is generated for a recorded requirement
\* (day, job type) only when at least one active worker has the job type; a
\* requirement with a positive minimum for a job type that no active worker has
\* generates no constraint, and the model is the one built without it, so it
\* does not make the run fail by itself
C26_MinimumOnlyForStaffedJobTypes ==
    \A opt \in optimizer : \A p \in opt.problem :
        /\ \A c \in p.constraints :
              c.name[1] = "daily_min" =>
                  /\ \E r \in daily_requirements :
                        /\ r.period = opt.period_id
                        /\ r.date = c.name[2]
                        /\ r.job_type = c.name[3]
                        /\ r.min_staff_count = c.rhs
                  /\ \E s \in Staff : staff[s].is_active /\ c.name[3] \in staff[s].job_type
                  /\ c.vars # {}
        /\ \A r \in UncoveredRequirements :
              ~\E c \in p.constraints :
                   c.name = <<"daily_min", r.date, r.job_type>>
        /\ p = CreateOptimizationProblem(
                   [opt EXCEPT !.requirements =
                       [k \in {j \in DOMAIN opt.requirements :
                                  \A r \in UncoveredRequirements :
                                      j # <<r.date, r.job_type>>}
                           |-> opt.requirements[k]]])

\* C26 witness: a run succeeded although a minimum of one was recorded, for a day
\* of the period, for a job type that no active worker has
C26_Witness ==
    /\ RunSucceeded
    /\ \E r \in UncoveredRequirements : r.min_staff_count > 0
    /\ \E opt \in optimizer : opt.status = "Optimal" /\ opt.requirements # <<>>

\* the variables of the optimizer's (worker, day) pairs with a day-off request
OffRequestedVars(opt) ==
    {k \in CreateDecisionVariables(opt) :
        DictGet(opt.requests, <<k[1], k[2][2]>>, DefaultPriority) = PriorityOff}

\* the model of the optimizer without the penalty term of the off-requested pairs
WithoutPenaltyTerm(opt, problem) ==
    [problem EXCEPT !.objective =
        [k \in problem.variables |->
            IF k \in OffRequestedVars(opt) THEN 0 ELSE problem.objective[k]]]

\* C23: the forced day off alone determines the outcome: the model with the
\* -100 term on the off-requested (worker, day) variables and the model without
\* it have the same feasible points, the same optimal points and the same
\* optimal value of the objective
C23_PenaltyTermIsRedundant ==
    \A opt \in optimizer : \A p \in opt.problem :
        LET q == WithoutPenaltyTerm(opt, p)
        IN /\ FeasibleSet(p) = FeasibleSet(q)
           /\ OptimalSet(p) = OptimalSet(q)
           /\ \A x \in OptimalSet(p) : ObjectiveValue(p, x) = ObjectiveValue(q, x)
           /\ \A x \in FeasibleSet(p) : \A k \in OffRequestedVars(opt) : x[k] = 0

\* C23 witness: a solved model with a penalty term on an off-requested pair,
\* other pairs that can be worked, and a positive optimum
C23_Witness ==
    /\ call.kind = "direct"
    /\ \E opt \in optimizer : \E p \in opt.problem :
          /\ \E k \in OffRequestedVars(opt) : p.objective[k] = WeightOff
          /\ opt.status = "Optimal"
          /\ call.score > 0
          /\ Cardinality(FeasibleSet(p)) > 1

\* the submitted priorities of one (worker, day) pair in the job's period
SubmittedPriority(pair) ==
    {r.priority : r \in {q \in shift_requests :
                            /\ q.period = call.period_id
                            /\ q.staff = pair[1]
                            /\ q.date = pair[2]}}

\* ten for every worked pair of priority 3, one for every worked pair of
\* priority 2 or without a submitted preference, minus a hundred for every worked
\* pair of priority 1
WeightedCount(worked) ==
    10 * Cardinality({w \in worked : 3 \in SubmittedPriority(w)})
    + Cardinality({w \in worked : SubmittedPriority(w) \subseteq {2}})
    - 100 * Cardinality({w \in worked : 1 \in SubmittedPriority(w)})

\* the (worker, day) pairs worked at the 0/1 point x
WorkedAt(x) == {<<k[1], k[2][2]>> : k \in {j \in DOMAIN x : x[j] = 1}}

\* save_results of a direct caller stored the solution
DirectSaveSucceeded ==
    /\ call.kind = "direct_save"
    /\ \E r \in result : r.success

\* C25: the objective value of an assignment is 10 x the worked pairs of
\* priority 3, plus 1 x the worked pairs of priority 2 or without a submitted
\* preference, minus 100 x the worked pairs of priority 1, a pair without a
\* preference counting exactly like priority 2; and the stored result of a
\* successful run has the largest such value among all assignments that satisfy
\* every generated constraint
C25_StoredResultMaximizesWeightedCount ==
    DirectSaveSucceeded =>
        \A opt \in optimizer : \A p \in opt.problem :
            LET stored == {<<a.staff, a.date>> :
                              a \in {b \in StoredInPeriod(assignments) : b.is_workday}}
            IN /\ \A x \in [p.variables -> {0, 1}] :
                     ObjectiveValue(p, x) = WeightedCount(WorkedAt(x))
               /\ call.score = WeightedCount(stored)
               /\ stored = WorkedAt(opt.values)
               /\ opt.values \in FeasibleSet(p)
               /\ \A y \in FeasibleSet(p) :
                     WeightedCount(WorkedAt(y)) <= WeightedCount(stored)

\* C25 witness: a stored solution in which a pair of priority 3 and a pair
\* without a submitted preference are worked and a pair of priority 1 is off
C25_Witness ==
    /\ DirectSaveSucceeded
    /\ \E a, b, c \in StoredInPeriod(assignments) :
          /\ a.is_workday /\ SubmittedPriority(<<a.staff, a.date>>) = {3}
          /\ b.is_workday /\ SubmittedPriority(<<b.staff, b.date>>) = {}
          /\ ~c.is_workday /\ SubmittedPriority(<<c.staff, c.date>>) = {1}
    /\ call.score >= 11

\* C30: every submitted job of the Job Runner reaches a terminal outcome when
\* the runner is fair: the retry counter goes up by one with each retry and
\* never passes max_retries, a retry is scheduled only below max_retries, the
\* last failing attempt raises the exception instead of scheduling a retry, and
\* every attempt is followed by the end of the job
C30_JobReachesTerminalOutcome ==
    /\ [][(pc = "task_retry" /\ pc' = "task_run")
             => /\ call'.retries = call.retries + 1
                /\ call'.retries <= max_retries]_vars
    /\ [][(pc = "task_run" /\ pc' = "task_retry") => call.retries < max_retries]_vars
    /\ [][(pc = "task_run" /\ call.retries >= max_retries)
             => /\ pc' = "done"
                /\ result' = {[success |-> FALSE,
                               raised  |-> IF call.period_id \in DOMAIN periods
                                           THEN "TypeError" ELSE "DoesNotExist"]}]_vars
    /\ (pc = "task_run") ~> (pc = "done" /\ call.kind = "task"
                                /\ \E r \in result : ~r.success)

\* C30 witness: a job for an existing period has ended after the retry counter
\* reached max_retries, with the exception of the last attempt raised
C30_Witness ==
    /\ pc = "done"
    /\ call.kind = "task"
    /\ call.period_id \in DOMAIN periods
    /\ call.retries = max_retries
    /\ result = {[success |-> FALSE, raised |-> "TypeError"]}

\* run r has ended and generate_schedule returned success = True
ConcSucceeded(r) == pc[r] = "done" /\ \E x \in result[r] : x.success

\* the stored rows whose day lies in the date range of a period
RowsOfPeriod(rows, period_id) ==
    {a \in rows : /\ periods[period_id].start_date <= a.date
                  /\ a.date <= periods[period_id].end_date}

\* the date ranges of two periods have a day in common
Overlap(p, q) ==
    /\ periods[p].start_date <= periods[q].end_date
    /\ periods[q].start_date <= periods[p].end_date

\* C22 as stated: runs on different periods share no mutable state: a step of a
\* run on period P leaves the assignment rows of every other period Q as they
\* were, whatever the other run is doing and also when the date ranges of P and
\* Q overlap
C22_RunLeavesOtherPeriodsRows ==
    [][\A r \in Runs :
          (pc'[r] # pc[r] /\ call[r].period_id \in DOMAIN periods)
             => \A q \in DOMAIN periods \ {call[r].period_id} :
                   RowsOfPeriod(assignments', q) = RowsOfPeriod(assignments, q)
      ]_vars

\* C22: in every interleaving a step of a run on period P changes no stored
\* row whose day is outside the date range of P, so the rows of every period Q
\* whose range shares no day with P are left as they were; rows of Q on days
\* that also lie in the range of P are deleted and replaced by the run on P
C22_RunChangesOnlyItsDateRange ==
    [][\A r \in Runs :
          (pc'[r] # pc[r] /\ call[r].period_id \in DOMAIN periods)
             => /\ assignments' \ RowsOfPeriod(assignments', call[r].period_id)
                      = assignments \ RowsOfPeriod(assignments, call[r].period_id)
                /\ \A q \in DOMAIN periods :
                      ~Overlap(call[r].period_id, q)
                         => RowsOfPeriod(assignments', q) = RowsOfPeriod(assignments, q)
      ]_vars

\* C22 witness: a run on p1 succeeded while a run on p2 was under way, the two
\* ranges share a day; a row of p2 on the shared day is replaced, and a row of
\* p2 on a day outside the range of p1 is still stored
C22_Witness ==
    \E r, q \in Runs :
        /\ ConcSucceeded(r)
        /\ call[r].period_id = "p1"
        /\ call[q].period_id = "p2"
        /\ pc[q] \notin {"idle", "done"}
        /\ Overlap("p1", "p2")
        /\ \E a \in RowsOfPeriod(call[r].before, "p2") :
              a \in RowsOfPeriod(call[r].before, "p1") /\ a \notin assignments
        /\ \E b \in RowsOfPeriod(call[r].before, "p2") :
              b \notin RowsOfPeriod(call[r].before, "p1") /\ b \in assignments

\* C29: two runs on the same period started without serialization: once both
\* have ended, and one of them succeeded, the rows of the period are exactly
\* the rows of one successful run, one per (active worker, day): no mixture of
\* the two solutions, no duplicate, not the empty set
C29_SamePeriodRunsLeaveOneSolution ==
    \A r, q \in Runs :
        (/\ r # q
         /\ pc[r] = "done" /\ pc[q] = "done"
         /\ call[r].period_id = call[q].period_id
         /\ ConcSucceeded(r))
           => \E w \in {r, q} :
                 /\ ConcSucceeded(w)
                 /\ \E opt \in optimizer[w] :
                       RowsOfPeriod(assignments, call[w].period_id)
                           = AssignmentsToCreate(opt)

\* two generate_schedule calls on the same period, without a task among them,
\* leave the rows of one successful run in every interleaving
ServiceRunsLeaveOneSolution ==
    (\A r \in Runs : call[r].kind \in {"none", "service"})
        => C29_SamePeriodRunsLeaveOneSolution

====
